---- MODULE Spec2Model ----
(***************************************************************************)
(* A model of src/src/index.ts: the Seoul weather / air-quality report.    *)
(*                                                                         *)
(* Strings the program parses or prints are sequences of one-character     *)
(* strings, so that a regular expression, a padStart or a number           *)
(* formatting is computed and not assumed.  Fixed labels of the report     *)
(* (the Korean words of the source) are single tokens, written in ASCII.   *)
(* A Date is always a UTC midnight here, and is the number of days since   *)
(* 1970-01-01 (the source's milliseconds divided by 86400000).             *)
(***************************************************************************)
EXTENDS Integers, Sequences, FiniteSets, TLC

VARIABLES
    todayDateYmd,           \* getClosestWeekendDates: its argument
    weekend,                \* getClosestWeekendDates: what it returned
    weatherResponse,        \* the Weather API payload
    airResponse,            \* the Air API payload
    weatherByDate,          \* mapWeatherDailyByDate(weatherResponse)
    weatherPeriodsByDate,   \* aggregateWeatherPeriodsByDate(weatherResponse)
    airByDate,              \* aggregateAirQualityByDate(airResponse)
    formatArgs,             \* the arguments of a formatting function
    formatted,              \* what the formatting function returned
    reportInput,            \* buildReportMessage: its input
    reportMessage,          \* buildReportMessage: the lines of its result
    pc,                     \* main: where the run stands
    config,                 \* main: what loading the configuration gave
    weatherFetch,           \* main: the request to the Weather API
    airFetch,               \* main: the request to the Air API
    sent,                   \* main: the Telegram sends attempted, in order
    exitCode                \* main: what the run returned

dateVars == <<todayDateYmd, weekend>>
aggVars == <<weatherResponse, airResponse, weatherByDate,
             weatherPeriodsByDate, airByDate>>
formatVars == <<formatArgs, formatted>>
reportVars == <<reportInput, reportMessage>>
mainVars == <<pc, config, weatherFetch, airFetch, sent, exitCode>>
vars == <<dateVars, aggVars, formatVars, reportVars, mainVars>>

\* A variable of an operation that has not run, or that the specification
\* at hand does not use.
NotRun == [t |-> "notrun"]
\* What a thrown Error leaves in place of a result.
Thrown == [t |-> "error"]

(***************************************************************************)
(* Characters, Number(str), String(n), padStart                            *)
(***************************************************************************)
DigitChars == <<"0", "1", "2", "3", "4", "5", "6", "7", "8", "9">>

IsDigit(c) == \E i \in 1..10 : DigitChars[i] = c

DigitValue(c) == (CHOOSE i \in 1..10 : DigitChars[i] = c) - 1

AllDigits(s) == \A i \in 1..Len(s) : IsDigit(s[i])

\* Number("0026") = 26, for a string of digits.
RECURSIVE Number(_)
Number(s) ==
    IF s = <<>> THEN 0
    ELSE 10 * Number(SubSeq(s, 1, Len(s) - 1)) + DigitValue(s[Len(s)])

\* String(n) of an integer: no padding, a leading "-" when negative.
RECURSIVE String(_)
String(n) ==
    IF n < 0 THEN <<"-">> \o String(0 - n)
    ELSE IF n < 10 THEN <<DigitChars[n + 1]>>
    ELSE String(n \div 10) \o <<DigitChars[(n % 10) + 1]>>

\* s.padStart(2, "0")
padStart2(s) == IF Len(s) < 2 THEN <<"0">> \o s ELSE s

(***************************************************************************)
(* The Date built-ins the source calls (ECMAScript's day arithmetic)       *)
(***************************************************************************)
DayFromYear(y) ==
    365 * (y - 1970) + ((y - 1969) \div 4) - ((y - 1901) \div 100)
        + ((y - 1601) \div 400)

InLeapYear(y) == (y % 4 = 0) /\ ((y % 100 # 0) \/ (y % 400 = 0))

DaysInYear(y) == IF InLeapYear(y) THEN 366 ELSE 365

\* The day within the year on which month index m (0..11) starts.
MonthStart(y, m) ==
    LET leap == IF InLeapYear(y) THEN 1 ELSE 0
    IN  CASE m = 0 -> 0
          [] m = 1 -> 31
          [] m = 2 -> 59 + leap
          [] m = 3 -> 90 + leap
          [] m = 4 -> 120 + leap
          [] m = 5 -> 151 + leap
          [] m = 6 -> 181 + leap
          [] m = 7 -> 212 + leap
          [] m = 8 -> 243 + leap
          [] m = 9 -> 273 + leap
          [] m = 10 -> 304 + leap
          [] OTHER -> 334 + leap

\* MakeDay(year, month, date): the month index and the date may lie outside
\* their ranges and carry over.
MakeDay(year, month, date) ==
    LET ym == year + (month \div 12)
        mn == month % 12
    IN  DayFromYear(ym) + MonthStart(ym, mn) + date - 1

\* Date.UTC(year, monthIndex, day): a year of 0..99 means 1900 + year.
DateUTC(year, monthIndex, day) ==
    LET yr == IF year >= 0 /\ year <= 99 THEN 1900 + year ELSE year
    IN  MakeDay(yr, monthIndex, day)

Min2(a, b) == IF a <= b THEN a ELSE b
Max2(a, b) == IF a >= b THEN a ELSE b

getUTCFullYear(date) ==
    LET a == 1970 + (date \div 365)
        b == 1970 + (date \div 366)
    IN  CHOOSE y \in (Min2(a, b) - 1)..(Max2(a, b) + 1) :
            DayFromYear(y) <= date /\ date < DayFromYear(y + 1)

\* The month index, 0..11.
getUTCMonth(date) ==
    LET y == getUTCFullYear(date)
        dayInYear == date - DayFromYear(y)
    IN  CHOOSE m \in 0..11 :
            /\ MonthStart(y, m) <= dayInYear
            /\ (m = 11 \/ dayInYear < MonthStart(y, m + 1))

getUTCDate(date) ==
    LET y == getUTCFullYear(date)
    IN  date - DayFromYear(y) - MonthStart(y, getUTCMonth(date)) + 1

\* 0: Sunday ... 6: Saturday
getUTCDay(date) == (date + 4) % 7

\* date.setUTCDate(n)
setUTCDate(date, n) == MakeDay(getUTCFullYear(date), getUTCMonth(date), n)

(***************************************************************************)
(* parseDateOnly, formatDateOnlyUtc, addUtcDays, getClosestWeekendDates    *)
(***************************************************************************)
\* /^(\d{4})-(\d{2})-(\d{2})$/
MatchesDateOnly(s) ==
    /\ Len(s) = 10
    /\ AllDigits(SubSeq(s, 1, 4))
    /\ s[5] = "-"
    /\ AllDigits(SubSeq(s, 6, 7))
    /\ s[8] = "-"
    /\ AllDigits(SubSeq(s, 9, 10))

\* The Date (as [t |-> "date", day |-> n]), or Thrown.
parseDateOnly(dateYmd) ==
    IF ~MatchesDateOnly(dateYmd) THEN Thrown
    ELSE [t |-> "date",
          day |-> DateUTC(Number(SubSeq(dateYmd, 1, 4)),
                          Number(SubSeq(dateYmd, 6, 7)) - 1,
                          Number(SubSeq(dateYmd, 9, 10)))]

formatDateOnlyUtc(date) ==
    LET y == getUTCFullYear(date)
        m == padStart2(String(getUTCMonth(date) + 1))
        d == padStart2(String(getUTCDate(date)))
    IN  String(y) \o <<"-">> \o m \o <<"-">> \o d

addUtcDays(date, days) == setUTCDate(date, getUTCDate(date) + days)

getClosestWeekendDates(ymd) ==
    LET today == parseDateOnly(ymd)
    IN  IF today = Thrown THEN Thrown
        ELSE LET dayOfWeek == getUTCDay(today.day)
                 daysUntilSaturday == (6 - dayOfWeek + 7) % 7
                 saturday == addUtcDays(today.day, daysUntilSaturday)
                 sunday == addUtcDays(saturday, 1)
             IN  [t |-> "weekend",
                  saturday |-> formatDateOnlyUtc(saturday),
                  sunday |-> formatDateOnlyUtc(sunday)]

(***************************************************************************)
(* Reference dates                                                         *)
(***************************************************************************)
\* "YYYY-MM-DD" written from numbers, the year padded to four digits.
RECURSIVE PadTo(_, _)
PadTo(s, n) == IF Len(s) >= n THEN s ELSE PadTo(<<"0">> \o s, n)

Ymd(y, m, d) ==
    PadTo(String(y), 4) \o <<"-">> \o PadTo(String(m), 2) \o <<"-">>
        \o PadTo(String(d), 2)

DaysInMonth(y, m) ==
    CASE m = 2 -> IF InLeapYear(y) THEN 29 ELSE 28
      [] m \in {4, 6, 9, 11} -> 30
      [] OTHER -> 31

\* The years the reference dates are drawn from: a year Date.UTC reads as
\* 19xx, a three-digit year, a century that is a leap year and one that is
\* not, and the years of the repository's tests.
ReferenceYears == {50, 999, 1999, 2000, 2024, 2026, 2100}

ValidDates ==
    UNION {{Ymd(y, m, d) : d \in 1..DaysInMonth(y, m)} :
               y \in ReferenceYears, m \in 1..12}

\* Strings that are no calendar date: one the pattern accepts all the same,
\* and two it rejects.
OtherDateStrings ==
    { Ymd(2026, 2, 30),
      <<"2", "0", "2", "6", "-", "2", "-", "3">>,
      Ymd(2026, 2, 26) \o <<"T", "0", "6", ":", "0", "0">> }

ReferenceDates == ValidDates \cup OtherDateStrings

(***************************************************************************)
(* Specification: getClosestWeekendDates on a reference date               *)
(***************************************************************************)
AggIdle ==
    /\ weatherResponse = NotRun
    /\ airResponse = NotRun
    /\ weatherByDate = NotRun
    /\ weatherPeriodsByDate = NotRun
    /\ airByDate = NotRun

FormatIdle ==
    /\ formatArgs = NotRun
    /\ formatted = NotRun

ReportIdle ==
    /\ reportInput = NotRun
    /\ reportMessage = NotRun

MainIdle ==
    /\ pc = NotRun
    /\ config = NotRun
    /\ weatherFetch = NotRun
    /\ airFetch = NotRun
    /\ sent = NotRun
    /\ exitCode = NotRun

WeekendInit ==
    /\ todayDateYmd \in ReferenceDates
    /\ weekend = NotRun
    /\ AggIdle
    /\ FormatIdle
    /\ ReportIdle
    /\ MainIdle

GetClosestWeekendDates ==
    /\ weekend = NotRun
    /\ weekend' = getClosestWeekendDates(todayDateYmd)
    /\ UNCHANGED <<todayDateYmd, aggVars, formatVars, reportVars, mainVars>>

WeekendNext == GetClosestWeekendDates

WeekendSpec == WeekendInit /\ [][WeekendNext]_vars

(***************************************************************************)
(* The calendar, counted independently of the Date built-ins above         *)
(***************************************************************************)
\* The string names a day of the proleptic Gregorian calendar as YYYY-MM-DD.
IsCalendarDate(s) ==
    /\ Len(s) = 10
    /\ \A i \in {1, 2, 3, 4, 6, 7, 9, 10} : IsDigit(s[i])
    /\ s[5] = "-" /\ s[8] = "-"
    /\ LET y == Number(SubSeq(s, 1, 4))
           m == Number(SubSeq(s, 6, 7))
           d == Number(SubSeq(s, 9, 10))
       IN  m \in 1..12 /\ d \in 1..DaysInMonth(y, m)

\* The running day number of a calendar date (years counted from March).
CalendarDay(s) ==
    LET y == Number(SubSeq(s, 1, 4))
        m == Number(SubSeq(s, 6, 7))
        d == Number(SubSeq(s, 9, 10))
        a == IF m <= 2 THEN 1 ELSE 0
        yy == y - a
        mm == m + 12 * a - 3
    IN  d + ((153 * mm + 2) \div 5) + 365 * yy + (yy \div 4) - (yy \div 100)
          + (yy \div 400)

\* 0: Sunday ... 6: Saturday; 1970-01-01, day 719469, was a Thursday.
CalendarWeekday(n) == (n - 719469 + 4) % 7

WeekendIsClosest(ref, w) ==
    /\ w.t = "weekend"
    /\ IsCalendarDate(w.saturday)
    /\ IsCalendarDate(w.sunday)
    /\ LET r == CalendarDay(ref)
           sat == CalendarDay(w.saturday)
           sun == CalendarDay(w.sunday)
       IN  /\ CalendarWeekday(sat) = 6
           /\ sat - r \in 0..6
           /\ (CalendarWeekday(r) = 6 => sat = r)
           /\ (CalendarWeekday(r) = 0 => sat = r + 6)
           /\ sun = sat + 1

\* C1: for every valid reference date d, the returned saturday is a calendar
\* date that is a Saturday, 0 to 6 days on or after d (d itself when d is a
\* Saturday, 6 days later when d is a Sunday), and the returned sunday is
\* the calendar day after it.
C1_ClosestWeekend ==
    (weekend # NotRun /\ todayDateYmd \in ValidDates)
        => WeekendIsClosest(todayDateYmd, weekend)

\* What does hold: the same, for the reference dates of the years 1000 and
\* later (four-digit years that Date.UTC takes as they are and String(y)
\* prints with four digits).
ClosestWeekendFromYear1000 ==
    (/\ weekend # NotRun
     /\ todayDateYmd \in ValidDates
     /\ Number(SubSeq(todayDateYmd, 1, 4)) >= 1000)
        => WeekendIsClosest(todayDateYmd, weekend)

\* A Sunday at the end of a year: the weekend is six days later, in the
\* next year.
WeekendAcrossYearEnd ==
    /\ todayDateYmd = Ymd(2000, 12, 31)
    /\ weekend # NotRun
    /\ weekend.saturday = Ymd(2001, 1, 6)
    /\ weekend.sunday = Ymd(2001, 1, 7)

(***************************************************************************)
(* JSON values and numbers                                                 *)
(*                                                                         *)
(* A finite number is a reduced fraction n/d, d > 0, and the arithmetic    *)
(* on it is exact: the sums and quotients of the bounded samples below are *)
(* far from the range where a double overflows.  Infinity is the number    *)
(* JSON.parse makes of a literal such as 1e999; Str is a JSON string where *)
(* a number was expected; Null is JSON null, and the source's own null.    *)
(***************************************************************************)
RECURSIVE GCD(_, _)
GCD(a, b) == IF b = 0 THEN a ELSE GCD(b, a % b)

Abs(x) == IF x < 0 THEN 0 - x ELSE x

\* The number n/d (d > 0), reduced.
Num(n, d) ==
    LET g == GCD(Abs(n), d)
    IN  [t |-> "num", n |-> n \div g, d |-> d \div g]

Null == [t |-> "null"]
Infinity == [t |-> "infinity"]
Str == [t |-> "string"]
Undefined == [t |-> "undefined"]

\* acc + value
Plus(a, b) == Num(a.n * b.d + b.n * a.d, a.d * b.d)

\* sum / k, for a length k > 0
DividedBy(a, k) == Num(a.n, a.d * k)

\* typeof v === "number"
IsNumber(v) == v.t \in {"num", "infinity"}

isFiniteNumber(v) == v.t = "num"

\* An array is [t |-> "array", items |-> a sequence].
Array(items) == [t |-> "array", items |-> items]

IsArray(x) == x.t = "array"

\* arr[i] for the source's index i (from 0): undefined outside the array.
At(arr, i) ==
    IF i + 1 \in 1..Len(arr.items) THEN arr.items[i + 1] ELSE Undefined

\* response.hourly?.time and the like: undefined when the section is missing.
Field(section, name) ==
    IF section = Undefined THEN Undefined ELSE section[name]

(***************************************************************************)
(* average, the period of an hour, the regular expression of a time        *)
(***************************************************************************)
RECURSIVE reduceSum(_, _)
reduceSum(values, acc) ==
    IF values = <<>> THEN acc
    ELSE reduceSum(Tail(values), Plus(acc, Head(values)))

\* A slip: an empty bucket averaged to 0.
averageZeroWhenEmpty(values) ==
    IF Len(values) = 0 THEN Num(0, 1)
    ELSE DividedBy(reduceSum(values, Num(0, 1)), Len(values))

average(values) ==
    IF Len(values) = 0 THEN Null
    ELSE DividedBy(reduceSum(values, Num(0, 1)), Len(values))

\* /^(\d{4}-\d{2}-\d{2})T(\d{2}):/
MatchesHourlyTime(iso) ==
    /\ Len(iso) >= 14
    /\ AllDigits(SubSeq(iso, 1, 4))
    /\ iso[5] = "-"
    /\ AllDigits(SubSeq(iso, 6, 7))
    /\ iso[8] = "-"
    /\ AllDigits(SubSeq(iso, 9, 10))
    /\ iso[11] = "T"
    /\ AllDigits(SubSeq(iso, 12, 13))
    /\ iso[14] = ":"

\* match[1]
MatchDate(iso) == SubSeq(iso, 1, 10)

\* Number(match[2])
MatchHour(iso) == Number(SubSeq(iso, 12, 13))

\* A slip: the first hour of each window left out.
periodOfHourExclusive(hour) ==
    IF hour > 6 /\ hour <= 11 THEN "morning"
    ELSE IF hour > 12 /\ hour <= 17 THEN "afternoon"
    ELSE "none"

\* The period of an hour, "none" standing for the source's null.
periodOfHour(hour) ==
    IF hour >= 6 /\ hour <= 11 THEN "morning"
    ELSE IF hour >= 12 /\ hour <= 17 THEN "afternoon"
    ELSE "none"

\* A slip: a value that is no finite number pushed as 0.
pushCoerced(bucket, value) ==
    Append(bucket, IF isFiniteNumber(value) THEN value ELSE Num(0, 1))

\* bucket.push(value) when the value is a finite number
pushIfFinite(bucket, value) ==
    IF isFiniteNumber(value) THEN Append(bucket, value) ELSE bucket

EmptyPeriods == [morning |-> <<>>, afternoon |-> <<>>]

\* buckets with an entry for the date, made when there was none
WithBucket(buckets, date, empty) ==
    IF date \in DOMAIN buckets THEN buckets ELSE (date :> empty) @@ buckets

NoBuckets == [date \in {} |-> EmptyPeriods]

(***************************************************************************)
(* mapWeatherDailyByDate                                                   *)
(***************************************************************************)
RECURSIVE dailyLoop(_, _, _, _, _)
dailyLoop(time, min, max, i, result) ==
    IF ~(i < Len(time.items)) THEN result
    ELSE LET entry ==
                 [min |-> IF IsNumber(At(min, i)) THEN At(min, i) ELSE Null,
                  max |-> IF IsNumber(At(max, i)) THEN At(max, i) ELSE Null]
             key == At(time, i)
         IN  dailyLoop(time, min, max, i + 1,
                       (key :> entry) @@ result)

\* A slip: the length of the maxima is not compared.
mapWeatherDailyByDateMinOnly(response) ==
    LET time == Field(response.daily, "time")
        min == Field(response.daily, "temperature_2m_min")
        max == Field(response.daily, "temperature_2m_max")
    IN  IF ~IsArray(time) \/ ~IsArray(min) \/ ~IsArray(max) THEN Thrown
        ELSE IF Len(time.items) # Len(min.items) THEN Thrown
        ELSE dailyLoop(time, min, max, 0, NoBuckets)

mapWeatherDailyByDate(response) ==
    LET time == Field(response.daily, "time")
        min == Field(response.daily, "temperature_2m_min")
        max == Field(response.daily, "temperature_2m_max")
    IN  IF ~IsArray(time) \/ ~IsArray(min) \/ ~IsArray(max) THEN Thrown
        ELSE IF Len(time.items) # Len(min.items)
                \/ Len(time.items) # Len(max.items) THEN Thrown
        ELSE dailyLoop(time, min, max, 0, NoBuckets)

(***************************************************************************)
(* aggregateAirQualityByDate                                               *)
(***************************************************************************)
EmptyAirBucket == [pm10 |-> EmptyPeriods, pm2_5 |-> EmptyPeriods]

RECURSIVE airLoop(_, _, _, _, _)
airLoop(time, pm10, pm2_5, i, buckets) ==
    IF ~(i < Len(time.items)) THEN buckets
    ELSE LET iso == At(time, i)
         IN  IF ~MatchesHourlyTime(iso)
             THEN airLoop(time, pm10, pm2_5, i + 1, buckets)
             ELSE LET date == MatchDate(iso)
                      hour == MatchHour(iso)
                      made == WithBucket(buckets, date, EmptyAirBucket)
                      period == periodOfHour(hour)
                  IN  IF period = "none"
                      THEN airLoop(time, pm10, pm2_5, i + 1, made)
                      ELSE airLoop(time, pm10, pm2_5, i + 1,
                             [made EXCEPT
                                ![date].pm10[period] =
                                    pushIfFinite(@, At(pm10, i)),
                                ![date].pm2_5[period] =
                                    pushIfFinite(@, At(pm2_5, i))])

\* The buckets the loop leaves, for arrays that passed the checks.
airBuckets(response) ==
    airLoop(response.hourly.time, response.hourly.pm10,
            response.hourly.pm2_5, 0, NoBuckets)

airSummary(bucket) ==
    [pm10 |-> [morning |-> average(bucket.pm10.morning),
               afternoon |-> average(bucket.pm10.afternoon)],
     pm2_5 |-> [morning |-> average(bucket.pm2_5.morning),
                afternoon |-> average(bucket.pm2_5.afternoon)]]

aggregateAirQualityByDate(response) ==
    LET time == Field(response.hourly, "time")
        pm10 == Field(response.hourly, "pm10")
        pm2_5 == Field(response.hourly, "pm2_5")
    IN  IF ~IsArray(time) \/ ~IsArray(pm10) \/ ~IsArray(pm2_5) THEN Thrown
        ELSE IF Len(time.items) # Len(pm10.items)
                \/ Len(time.items) # Len(pm2_5.items) THEN Thrown
        ELSE LET buckets == airBuckets(response)
             IN  [date \in DOMAIN buckets |-> airSummary(buckets[date])]

(***************************************************************************)
(* representativeWeatherCode                                               *)
(***************************************************************************)
\* Number.MAX_SAFE_INTEGER stands above every index; the largest integer
\* of the model checker does the same here.
MAX_SAFE_INTEGER == 2147483647

\* The Map counts, as its entries in insertion order.
RECURSIVE countLoop(_, _, _)
countLoop(values, i, counts) ==
    IF ~(i < Len(values)) THEN counts
    ELSE LET value == values[i + 1]
             at == {k \in 1..Len(counts) : counts[k].value = value}
         IN  IF at # {}
             THEN countLoop(values, i + 1,
                    [counts EXCEPT ![CHOOSE k \in at : TRUE].count = @ + 1])
             ELSE countLoop(values, i + 1,
                    Append(counts, [value |-> value, count |-> 1,
                                    firstIndex |-> i]))

\* A slip: on equal counts the later entry wins.
replacesBestOnTie(entry, best) == entry.count >= best.bestCount

\* The condition under which an entry replaces the best one so far.
replacesBest(entry, best) ==
    \/ entry.count > best.bestCount
    \/ (entry.count = best.bestCount /\ entry.firstIndex < best.bestIndex)

\* The loop over the entries, taken in the order given.
RECURSIVE bestLoop(_, _, _)
bestLoop(entries, k, best) ==
    IF k > Len(entries) THEN best.bestValue
    ELSE IF replacesBest(entries[k], best)
         THEN bestLoop(entries, k + 1,
                       [bestValue |-> entries[k].value,
                        bestCount |-> entries[k].count,
                        bestIndex |-> entries[k].firstIndex])
         ELSE bestLoop(entries, k + 1, best)

InitialBest(values) ==
    [bestValue |-> values[1], bestCount |-> -1,
     bestIndex |-> MAX_SAFE_INTEGER]

representativeWeatherCode(values) ==
    IF Len(values) = 0 THEN Null
    ELSE bestLoop(countLoop(values, 0, <<>>), 1, InitialBest(values))

(***************************************************************************)
(* aggregateWeatherPeriodsByDate                                           *)
(***************************************************************************)
EmptyWeatherBucket ==
    [temperature |-> EmptyPeriods, weatherCode |-> EmptyPeriods]

RECURSIVE weatherLoop(_, _, _, _, _)
weatherLoop(time, temperature, weatherCode, i, buckets) ==
    IF ~(i < Len(time.items)) THEN buckets
    ELSE LET iso == At(time, i)
         IN  IF ~MatchesHourlyTime(iso)
             THEN weatherLoop(time, temperature, weatherCode, i + 1, buckets)
             ELSE LET date == MatchDate(iso)
                      hour == MatchHour(iso)
                      made == WithBucket(buckets, date, EmptyWeatherBucket)
                      period == periodOfHour(hour)
                  IN  IF period = "none"
                      THEN weatherLoop(time, temperature, weatherCode,
                                       i + 1, made)
                      ELSE weatherLoop(time, temperature, weatherCode, i + 1,
                             [made EXCEPT
                                ![date].temperature[period] =
                                    pushIfFinite(@, At(temperature, i)),
                                ![date].weatherCode[period] =
                                    pushIfFinite(@, At(weatherCode, i))])

\* The buckets the loop leaves, for arrays that passed the checks.
weatherBuckets(response) ==
    weatherLoop(response.hourly.time, response.hourly.temperature_2m,
                response.hourly.weather_code, 0, NoBuckets)

weatherSummary(bucket) ==
    [temperature |->
        [morning |-> average(bucket.temperature.morning),
         afternoon |-> average(bucket.temperature.afternoon)],
     weatherCode |->
        [morning |-> representativeWeatherCode(bucket.weatherCode.morning),
         afternoon |->
            representativeWeatherCode(bucket.weatherCode.afternoon)]]

aggregateWeatherPeriodsByDate(response) ==
    LET time == Field(response.hourly, "time")
        temperature == Field(response.hourly, "temperature_2m")
        weatherCode == Field(response.hourly, "weather_code")
    IN  IF ~IsArray(time) \/ ~IsArray(temperature) \/ ~IsArray(weatherCode)
        THEN Thrown
        ELSE IF Len(time.items) # Len(temperature.items)
                \/ Len(time.items) # Len(weatherCode.items) THEN Thrown
        ELSE LET buckets == weatherBuckets(response)
             IN  [date \in DOMAIN buckets |-> weatherSummary(buckets[date])]

(***************************************************************************)
(* The payloads the aggregators are run on                                 *)
(***************************************************************************)
\* The longest series of samples.
MaxLen == 3
\* The longest series whose arrays are also damaged (made missing, no
\* array, or of another length).
MaxShapeLen == 2

Day1 == Ymd(2026, 2, 26)
Day2 == Ymd(2026, 2, 27)
Day3 == Ymd(2026, 2, 28)

\* "YYYY-MM-DDTHH:00"
Iso(date, hour) ==
    date \o <<"T">> \o PadTo(String(hour), 2) \o <<":", "0", "0">>

\* A time with a blank where the T belongs, and a time with a one-digit hour.
BlankTime == Day1 \o <<" ", "0", "9", ":", "0", "0">>
ShortHourTime == Day1 \o <<"T", "9", ":", "0", "0", "0">>

\* <<time, pm10, pm2_5>>: the hours on both sides of each window's ends, an
\* hour above 23, a second date, a time the pattern rejects, and values that
\* are null, zero, no number, or not finite.
AirSamples ==
    { <<Iso(Day1, 5), Num(60, 1), Num(30, 1)>>,
      <<Iso(Day1, 6), Num(30, 1), Num(15, 1)>>,
      <<Iso(Day1, 11), Num(40, 1), Null>>,
      <<Iso(Day1, 12), Num(0, 1), Str>>,
      <<Iso(Day1, 17), Null, Num(35, 1)>>,
      <<Iso(Day1, 18), Num(80, 1), Num(45, 1)>>,
      <<Iso(Day1, 24), Num(90, 1), Num(55, 1)>>,
      <<Iso(Day2, 7), Null, Null>>,
      <<Iso(Day2, 9), Infinity, Num(51, 2)>>,
      <<BlankTime, Num(45, 1), Num(45, 1)>> }

\* <<time, temperature_2m, weather_code>>
WeatherSamples ==
    { <<Iso(Day1, 5), Num(-3, 1), Num(71, 1)>>,
      <<Iso(Day1, 6), Num(-2, 1), Num(0, 1)>>,
      <<Iso(Day1, 9), Num(1, 2), Num(1, 1)>>,
      <<Iso(Day1, 11), Null, Num(3, 1)>>,
      <<Iso(Day1, 12), Num(8, 1), Num(3, 1)>>,
      <<Iso(Day1, 15), Num(10, 1), Num(61, 1)>>,
      <<Iso(Day1, 17), Str, Infinity>>,
      <<Iso(Day1, 18), Num(2, 1), Num(0, 1)>>,
      <<Iso(Day1, 24), Num(5, 1), Num(95, 1)>>,
      <<Iso(Day2, 7), Null, Null>>,
      <<ShortHourTime, Num(4, 1), Num(2, 1)>> }

\* <<time, temperature_2m_min, temperature_2m_max>>
DailySamples ==
    { <<Day1, Num(2, 1), Num(904, 100)>>,
      <<Day2, Null, Num(8, 1)>>,
      <<Day2, Str, Infinity>>,
      <<Day3, Num(0, 1), Num(7, 1)>>,
      <<Iso(Day1, 0), Num(-105, 100), Num(105, 100)>>,
      <<<<"n", "/", "a">>, Num(1, 1), Num(2, 1)>> }

Column(series, c) == Array([i \in 1..Len(series) |-> series[i][c]])

\* A section whose three arrays hold the columns of a series.
Section(series, names) ==
    (names[1] :> Column(series, 1)) @@ (names[2] :> Column(series, 2))
        @@ (names[3] :> Column(series, 3))

\* The section with one array missing, replaced by a string (which has a
\* length and is no array), one entry shorter, or one entry longer.
Damaged(section, name, how) ==
    LET items == section[name].items
        extra == IF name = "time" THEN Iso(Day1, 9) ELSE Num(1, 1)
    IN  CASE how = "missing" -> [section EXCEPT ![name] = Undefined]
          [] how = "string" -> [section EXCEPT ![name] = Str]
          [] how = "shorter" ->
                [section EXCEPT ![name] =
                    Array(SubSeq(items, 1, Max2(Len(items) - 1, 0)))]
          [] OTHER -> [section EXCEPT ![name] = Array(Append(items, extra))]

\* How a section is made of a series: left intact, or, for a short series,
\* with the k-th array damaged.
Makings(n) ==
    {<<1, "intact">>}
      \cup (IF n <= MaxShapeLen
            THEN (1..3) \X {"missing", "string", "shorter", "longer"}
            ELSE {})

Made(series, names, making) ==
    IF making[2] = "intact" THEN Section(series, names)
    ELSE Damaged(Section(series, names), names[making[1]], making[2])

AirNames == <<"time", "pm10", "pm2_5">>
HourlyNames == <<"time", "temperature_2m", "weather_code">>
DailyNames == <<"time", "temperature_2m_min", "temperature_2m_max">>

\* A weather payload varies in one of its two sections; the other holds
\* one sample.
OneDaily == Section(<<<<Day1, Num(2, 1), Num(9, 1)>>>>, DailyNames)
OneHourly == Section(<<<<Iso(Day1, 9), Num(0, 1), Num(1, 1)>>>>, HourlyNames)

(***************************************************************************)
(* Specification: the three aggregators, each on a payload                 *)
(***************************************************************************)
DatesIdle ==
    /\ todayDateYmd = NotRun
    /\ weekend = NotRun

\* The payload of one API is chosen, with its section present or missing.
AggInit ==
    /\ \E n \in 0..MaxLen, missing \in BOOLEAN :
          \/ \E series \in [1..n -> AirSamples], making \in Makings(n) :
                /\ airResponse =
                      [hourly |-> IF missing THEN Undefined
                                  ELSE Made(series, AirNames, making)]
                /\ weatherResponse = NotRun
          \/ \E series \in [1..n -> WeatherSamples], making \in Makings(n) :
                /\ weatherResponse =
                      [daily |-> OneDaily,
                       hourly |-> IF missing THEN Undefined
                                  ELSE Made(series, HourlyNames, making)]
                /\ airResponse = NotRun
          \/ \E series \in [1..n -> DailySamples], making \in Makings(n) :
                /\ weatherResponse =
                      [daily |-> IF missing THEN Undefined
                                 ELSE Made(series, DailyNames, making),
                       hourly |-> OneHourly]
                /\ airResponse = NotRun
    /\ weatherByDate = NotRun
    /\ weatherPeriodsByDate = NotRun
    /\ airByDate = NotRun
    /\ DatesIdle
    /\ FormatIdle
    /\ ReportIdle
    /\ MainIdle

MapWeatherDailyByDate ==
    /\ weatherResponse # NotRun
    /\ weatherByDate = NotRun
    /\ weatherByDate' = mapWeatherDailyByDate(weatherResponse)
    /\ UNCHANGED <<weatherResponse, airResponse, weatherPeriodsByDate,
                   airByDate, dateVars, formatVars, reportVars, mainVars>>

AggregateWeatherPeriodsByDate ==
    /\ weatherResponse # NotRun
    /\ weatherPeriodsByDate = NotRun
    /\ weatherPeriodsByDate' = aggregateWeatherPeriodsByDate(weatherResponse)
    /\ UNCHANGED <<weatherResponse, airResponse, weatherByDate, airByDate,
                   dateVars, formatVars, reportVars, mainVars>>

AggregateAirQualityByDate ==
    /\ airResponse # NotRun
    /\ airByDate = NotRun
    /\ airByDate' = aggregateAirQualityByDate(airResponse)
    /\ UNCHANGED <<weatherResponse, airResponse, weatherByDate,
                   weatherPeriodsByDate, dateVars, formatVars, reportVars,
                   mainVars>>

AggNext ==
    \/ MapWeatherDailyByDate
    \/ AggregateWeatherPeriodsByDate
    \/ AggregateAirQualityByDate

AggSpec == AggInit /\ [][AggNext]_vars

(***************************************************************************)
(* What the claims say of the aggregators, counted from the payload        *)
(***************************************************************************)
Periods == {"morning", "afternoon"}

\* The hours of a period, as the specification gives them.
WindowHours(period) == IF period = "morning" THEN 6..11 ELSE 12..17

\* The two digits after the T, read as a number.
HourDigits(iso) == 10 * DigitValue(iso[12]) + DigitValue(iso[13])

Computed(result) == result # NotRun /\ result # Thrown

\* The dates of the well-formed times of a section.
SourceDates(section) ==
    {SubSeq(section.time.items[i], 1, 10) :
        i \in {j \in 1..Len(section.time.items) :
                  MatchesHourlyTime(section.time.items[j])}}

\* The positions of the samples of a date whose hour lies in the period's
\* window and whose value in the named array is a finite number.
Qualifying(section, name, date, period) ==
    {i \in 1..Len(section.time.items) :
        /\ MatchesHourlyTime(section.time.items[i])
        /\ SubSeq(section.time.items[i], 1, 10) = date
        /\ HourDigits(section.time.items[i]) \in WindowHours(period)
        /\ section[name].items[i].t = "num"}

\* The sum, in hundredths, of the values at the positions idx.
RECURSIVE SumHundredths(_, _)
SumHundredths(items, idx) ==
    IF idx = {} THEN 0
    ELSE LET i == CHOOSE j \in idx : TRUE
         IN  items[i].n * (100 \div items[i].d)
               + SumHundredths(items, idx \ {i})

\* r is the sum of the values at idx divided by their count.
IsMeanOf(r, items, idx) ==
    /\ r.t = "num"
    /\ r.n * 100 * Cardinality(idx) = r.d * SumHundredths(items, idx)

MeansOf(result, section, name, field) ==
    \A date \in SourceDates(section), period \in Periods :
        LET idx == Qualifying(section, name, date, period)
        IN  idx # {} =>
              /\ date \in DOMAIN result
              /\ IsMeanOf(result[date][field][period],
                          section[name].items, idx)

\* C2: for every accepted hourly series and every date and period with a
\* qualifying sample, pm10, pm2_5 and temperature are the sum of the finite
\* values of that date and period divided by the count of those values
\* alone; a null or non-numeric entry adds nothing to either, and a missing
\* value in one array does not exclude the same hour's value in the other.
C2_AverageOfFiniteValues ==
    /\ Computed(airByDate) =>
          /\ MeansOf(airByDate, airResponse.hourly, "pm10", "pm10")
          /\ MeansOf(airByDate, airResponse.hourly, "pm2_5", "pm2_5")
    /\ Computed(weatherPeriodsByDate) =>
          MeansOf(weatherPeriodsByDate, weatherResponse.hourly,
                  "temperature_2m", "temperature")

\* 06:00 holds pm10 30 and pm2_5 15, 11:00 holds pm10 40 and no pm2_5, and
\* 17:00 holds pm2_5 35 and no pm10.
C2_Witness ==
    /\ Computed(airByDate)
    /\ airResponse.hourly.time.items
          = <<Iso(Day1, 6), Iso(Day1, 11), Iso(Day1, 17)>>
    /\ airByDate[Day1].pm10 = [morning |-> Num(35, 1), afternoon |-> Null]
    /\ airByDate[Day1].pm2_5
          = [morning |-> Num(15, 1), afternoon |-> Num(35, 1)]

AbsentIffEmpty(result, section, name, field) ==
    \A date \in DOMAIN result, period \in Periods :
        (result[date][field][period] = Null)
            <=> (Qualifying(section, name, date, period) = {})

NeverZeroForEmpty(result, section, name, field) ==
    \A date \in DOMAIN result, period \in Periods :
        Qualifying(section, name, date, period) = {}
            => result[date][field][period].t # "num"

\* C3: in every returned summary a period value (an average or the
\* representative weather code) is absent exactly when no finite sample of
\* that date, period and quantity lies in the window: an empty bucket never
\* gives a number, a bucket with a sample never gives absent.
C3_AbsentIffEmptyBucket ==
    /\ Computed(airByDate) =>
          /\ AbsentIffEmpty(airByDate, airResponse.hourly, "pm10", "pm10")
          /\ AbsentIffEmpty(airByDate, airResponse.hourly, "pm2_5", "pm2_5")
          /\ NeverZeroForEmpty(airByDate, airResponse.hourly, "pm10", "pm10")
          /\ NeverZeroForEmpty(airByDate, airResponse.hourly, "pm2_5",
                               "pm2_5")
    /\ Computed(weatherPeriodsByDate) =>
          /\ AbsentIffEmpty(weatherPeriodsByDate, weatherResponse.hourly,
                            "temperature_2m", "temperature")
          /\ AbsentIffEmpty(weatherPeriodsByDate, weatherResponse.hourly,
                            "weather_code", "weatherCode")
          /\ NeverZeroForEmpty(weatherPeriodsByDate, weatherResponse.hourly,
                               "temperature_2m", "temperature")
          /\ NeverZeroForEmpty(weatherPeriodsByDate, weatherResponse.hourly,
                               "weather_code", "weatherCode")

\* A date whose only sample holds nulls beside a date with a real value,
\* and an afternoon whose only sample holds no finite number.
C3_Witness ==
    /\ Computed(weatherPeriodsByDate)
    /\ weatherResponse.hourly.time.items
          = <<Iso(Day2, 7), Iso(Day1, 9), Iso(Day1, 17)>>
    /\ weatherPeriodsByDate[Day2].temperature.morning = Null
    /\ weatherPeriodsByDate[Day2].weatherCode.morning = Null
    /\ weatherPeriodsByDate[Day1].temperature.morning = Num(1, 2)
    /\ weatherPeriodsByDate[Day1].weatherCode.morning = Num(1, 1)
    /\ weatherPeriodsByDate[Day1].temperature.afternoon = Null
    /\ weatherPeriodsByDate[Day1].weatherCode.afternoon = Null

\* The smallest member of a non-empty set of positions.
Least(idx) == CHOOSE i \in idx : \A j \in idx : i <= j

\* r is a most frequent code among the positions idx, and of the most
\* frequent ones the code that occurs first.
IsRepresentative(r, items, idx) ==
    LET Count(c) == Cardinality({i \in idx : items[i] = c})
        First(c) == Least({i \in idx : items[i] = c})
    IN  /\ \E i \in idx : items[i] = r
        /\ \A i \in idx :
              /\ Count(items[i]) <= Count(r)
              /\ Count(items[i]) = Count(r) => First(r) <= First(items[i])

\* The entries of a Map taken in every order an iteration could take.
Reorderings(entries) ==
    {[k \in 1..Len(entries) |-> entries[f[k]]] :
        f \in Permutations(1..Len(entries))}

\* C4: for every non-empty weather-code bucket the representative is the
\* code with the highest count among the bucket's samples, and among codes
\* sharing the highest count the one whose first occurrence is earliest in
\* the sequence of that date and period, whatever the order in which the
\* codes are iterated.
C4_RepresentativeWeatherCode ==
    Computed(weatherPeriodsByDate) =>
        \A date \in SourceDates(weatherResponse.hourly), period \in Periods :
            LET section == weatherResponse.hourly
                idx == Qualifying(section, "weather_code", date, period)
                rep == weatherPeriodsByDate[date].weatherCode[period]
                values ==
                    weatherBuckets(weatherResponse)[date].weatherCode[period]
            IN  idx # {} =>
                  /\ IsRepresentative(rep, section.weather_code.items, idx)
                  /\ \A entries \in Reorderings(countLoop(values, 0, <<>>)) :
                        bestLoop(entries, 1, InitialBest(values)) = rep

\* Code 61 at 15:00 comes before code 3 at 12:00 in the payload and each
\* occurs once: 61 is the representative.
C4_Witness ==
    /\ Computed(weatherPeriodsByDate)
    /\ weatherResponse.hourly.time.items
          = <<Iso(Day1, 15), Iso(Day1, 12), Iso(Day1, 9)>>
    /\ weatherPeriodsByDate[Day1].weatherCode.afternoon = Num(61, 1)

\* The finite values at the positions idx, in the order of the payload.
RECURSIVE ValuesAt(_, _)
ValuesAt(items, idx) ==
    IF idx = {} THEN <<>>
    ELSE <<items[Least(idx)]>> \o ValuesAt(items, idx \ {Least(idx)})

BucketsByHour(buckets, section, name, field) ==
    /\ DOMAIN buckets = SourceDates(section)
    /\ \A date \in DOMAIN buckets, period \in Periods :
          buckets[date][field][period]
              = ValuesAt(section[name].items,
                         Qualifying(section, name, date, period))

\* The section without the sample at position i.
Without(section, names, i) ==
    LET Drop(arr) ==
            Array(SubSeq(arr.items, 1, i - 1)
                    \o SubSeq(arr.items, i + 1, Len(arr.items)))
    IN  (names[1] :> Drop(section[names[1]]))
          @@ (names[2] :> Drop(section[names[2]]))
          @@ (names[3] :> Drop(section[names[3]]))

\* The positions of the well-formed samples that lie in neither window.
DroppedSamples(section) ==
    {i \in 1..Len(section.time.items) :
        /\ MatchesHourlyTime(section.time.items[i])
        /\ HourDigits(section.time.items[i]) \notin 6..17}

\* One result holds the period values of another: the same summary at each
\* date both have, and only absent values at a date the other lacks.
SamePeriodValues(result, other, empty) ==
    /\ DOMAIN other \subseteq DOMAIN result
    /\ \A date \in DOMAIN result :
          result[date] = IF date \in DOMAIN other THEN other[date] ELSE empty

AllAbsent == [morning |-> Null, afternoon |-> Null]

\* C5: in both hourly aggregators a well-formed sample goes by its hour to
\* morning (6..11), afternoon (12..17) or nowhere (0..5, 18..23 and above
\* 23): each bucket holds exactly the finite values of its date whose hour
\* lies in its window, so the hours 06, 11, 12 and 17 are in, no sample is in
\* both periods, and a dropped sample changes no period value of any date.
C5_HourClassification ==
    /\ Computed(airByDate) =>
          LET section == airResponse.hourly
              buckets == airBuckets(airResponse)
          IN  /\ BucketsByHour(buckets, section, "pm10", "pm10")
              /\ BucketsByHour(buckets, section, "pm2_5", "pm2_5")
              /\ \A i \in DroppedSamples(section) :
                    SamePeriodValues(
                        airByDate,
                        aggregateAirQualityByDate(
                            [hourly |-> Without(section, AirNames, i)]),
                        [pm10 |-> AllAbsent, pm2_5 |-> AllAbsent])
    /\ Computed(weatherPeriodsByDate) =>
          LET section == weatherResponse.hourly
              buckets == weatherBuckets(weatherResponse)
          IN  /\ BucketsByHour(buckets, section, "temperature_2m",
                               "temperature")
              /\ BucketsByHour(buckets, section, "weather_code",
                               "weatherCode")
              /\ \A i \in DroppedSamples(section) :
                    SamePeriodValues(
                        weatherPeriodsByDate,
                        aggregateWeatherPeriodsByDate(
                            [daily |-> weatherResponse.daily,
                             hourly |-> Without(section, HourlyNames, i)]),
                        [temperature |-> AllAbsent,
                         weatherCode |-> AllAbsent])

\* 11:00 is the last hour of the morning, 12:00 the first of the afternoon,
\* and 18:00 is dropped.
C5_Witness ==
    /\ Computed(airByDate)
    /\ airResponse.hourly.time.items
          = <<Iso(Day1, 11), Iso(Day1, 12), Iso(Day1, 18)>>
    /\ airByDate[Day1].pm10
          = [morning |-> Num(40, 1), afternoon |-> Num(0, 1)]

\* An expected array is missing or no array, or the arrays differ in length.
BadShape(section, names) ==
    \/ section = Undefined
    \/ \E k \in 1..3 : section[names[k]].t # "array"
    \/ \E k \in 2..3 :
          Len(section[names[k]].items) # Len(section[names[1]].items)

\* C6: each of mapWeatherDailyByDate, aggregateAirQualityByDate and
\* aggregateWeatherPeriodsByDate fails, returning no map, whenever one of
\* its arrays is missing or no array or the value arrays are not as long as
\* time; with all arrays present and equally long (empty ones too) the call
\* does not fail, whatever the entries are.
C6_ShapeErrors ==
    /\ weatherByDate # NotRun =>
          ((weatherByDate = Thrown)
              <=> BadShape(weatherResponse.daily, DailyNames))
    /\ weatherPeriodsByDate # NotRun =>
          ((weatherPeriodsByDate = Thrown)
              <=> BadShape(weatherResponse.hourly, HourlyNames))
    /\ airByDate # NotRun =>
          ((airByDate = Thrown) <=> BadShape(airResponse.hourly, AirNames))

\* The daily maxima are one entry longer than time and the minima, and the
\* call has failed.
C6_Witness ==
    /\ weatherByDate = Thrown
    /\ weatherResponse.daily # Undefined
    /\ \A k \in 1..3 : weatherResponse.daily[DailyNames[k]].t = "array"
    /\ Len(weatherResponse.daily.time.items) = 2
    /\ Len(weatherResponse.daily.temperature_2m_min.items) = 2
    /\ Len(weatherResponse.daily.temperature_2m_max.items) = 3

(***************************************************************************)
(* Rounding, labels and grades                                             *)
(*                                                                         *)
(* A formatted string is a sequence of characters and tokens.  The tokens  *)
(* stand for the words of the source: NoData for the no-data word of       *)
(* lines 422, 434, 490 and 522, the labels of describeTemperature,         *)
(* describeWeatherCode and getPmGrade for theirs, in the source's order.   *)
(***************************************************************************)
NoData == "no-data"

\* A label is a string; null is the other value the labelling functions
\* return.
Label(word) == [t |-> "string", word |-> word]

\* value <= k and value >= k and value === k, for an integer k
AtMost(value, k) == value # Infinity /\ value.n <= k * value.d
AtLeast(value, k) == value = Infinity \/ value.n >= k * value.d
Is(value, k) == value # Infinity /\ value.n = k * value.d

\* Math.round(x): the nearest integer, a tie going to the larger one.
MathRound(x) == (2 * x.n + x.d) \div (2 * x.d)

\* Math.round((value + Number.EPSILON) * 10) / 10.  Number.EPSILON, 2^-52,
\* is left out: added to a fraction of the model it changes no rounding,
\* and on the two-decimal values of the model the double arithmetic of the
\* source arrives at the same tenths as the exact one.
roundToOneDecimal(value) == Num(MathRound(Num(value.n * 10, value.d)), 10)

\* rounded.toFixed(1), for a number of tenths
toFixed1(rounded) ==
    LET tenths == rounded.n * (10 \div rounded.d)
        sign == IF tenths < 0 THEN <<"-">> ELSE <<>>
    IN  sign \o String(Abs(tenths) \div 10) \o <<".">>
             \o String(Abs(tenths) % 10)

formatRoundedNumber(value) ==
    IF value = Null THEN <<NoData>>
    ELSE IF value = Infinity THEN <<"Infinity">>
    ELSE LET rounded == roundToOneDecimal(value)
         IN  IF rounded.d = 1 THEN String(rounded.n) ELSE toFixed1(rounded)

\* A slip: a value is tested for truth, which zero fails.
formatTemperatureIfTruthy(value) ==
    IF value = Null \/ Is(value, 0) THEN <<NoData>>
    ELSE formatRoundedNumber(value) \o <<"degrees-C">>

formatTemperature(value) ==
    IF value = Null THEN <<NoData>>
    ELSE formatRoundedNumber(value) \o <<"degrees-C">>

\* A slip: the bands closed below instead of above.
describeTemperatureExclusive(value) ==
    IF value = Null THEN Null
    ELSE IF ~AtLeast(value, -5) THEN Label("very-cold")
    ELSE IF ~AtLeast(value, 5) THEN Label("cold")
    ELSE IF ~AtLeast(value, 12) THEN Label("chilly")
    ELSE IF ~AtLeast(value, 19) THEN Label("mild-cool")
    ELSE IF ~AtLeast(value, 26) THEN Label("mild-warm")
    ELSE IF ~AtLeast(value, 31) THEN Label("hot")
    ELSE Label("very-hot")

describeTemperature(value) ==
    IF value = Null THEN Null
    ELSE IF AtMost(value, -5) THEN Label("very-cold")
    ELSE IF AtMost(value, 5) THEN Label("cold")
    ELSE IF AtMost(value, 12) THEN Label("chilly")
    ELSE IF AtMost(value, 19) THEN Label("mild-cool")
    ELSE IF AtMost(value, 26) THEN Label("mild-warm")
    ELSE IF AtMost(value, 31) THEN Label("hot")
    ELSE Label("very-hot")

\* A slip: a code outside the table is taken for a missing one.
describeWeatherCodeKnownOnly(value) ==
    IF value = Null THEN Null
    ELSE IF Is(value, 0) THEN Label("clear")
    ELSE IF Is(value, 1) \/ Is(value, 2) \/ Is(value, 3) THEN Label("cloudy")
    ELSE IF Is(value, 45) \/ Is(value, 48) THEN Label("fog")
    ELSE IF (AtLeast(value, 51) /\ AtMost(value, 67))
            \/ (AtLeast(value, 80) /\ AtMost(value, 82)) THEN Label("rain")
    ELSE IF (AtLeast(value, 71) /\ AtMost(value, 77))
            \/ Is(value, 85) \/ Is(value, 86) THEN Label("snow")
    ELSE IF Is(value, 95) \/ Is(value, 96) \/ Is(value, 99)
    THEN Label("thunderstorm")
    ELSE Null

describeWeatherCode(value) ==
    IF value = Null THEN Null
    ELSE IF Is(value, 0) THEN Label("clear")
    ELSE IF Is(value, 1) \/ Is(value, 2) \/ Is(value, 3) THEN Label("cloudy")
    ELSE IF Is(value, 45) \/ Is(value, 48) THEN Label("fog")
    ELSE IF (AtLeast(value, 51) /\ AtMost(value, 67))
            \/ (AtLeast(value, 80) /\ AtMost(value, 82)) THEN Label("rain")
    ELSE IF (AtLeast(value, 71) /\ AtMost(value, 77))
            \/ Is(value, 85) \/ Is(value, 86) THEN Label("snow")
    ELSE IF Is(value, 95) \/ Is(value, 96) \/ Is(value, 99)
    THEN Label("thunderstorm")
    ELSE Label("no-weather-info")

\* A slip: a label is made only when both parts are there.
formatWeatherLabelBothOrNone(temperature, weatherCode) ==
    LET temperatureLabel == describeTemperature(temperature)
        weatherLabel == describeWeatherCode(weatherCode)
    IN  IF temperatureLabel # Null /\ weatherLabel # Null
        THEN <<temperatureLabel.word, "*", weatherLabel.word>>
        ELSE <<NoData>>

formatWeatherLabel(temperature, weatherCode) ==
    LET temperatureLabel == describeTemperature(temperature)
        weatherLabel == describeWeatherCode(weatherCode)
    IN  IF temperatureLabel # Null /\ weatherLabel # Null
        THEN <<temperatureLabel.word, "*", weatherLabel.word>>
        ELSE IF temperatureLabel # Null THEN <<temperatureLabel.word>>
        ELSE IF weatherLabel # Null THEN <<weatherLabel.word>>
        ELSE <<NoData>>

\* The two lines of a day's weather.
formatWeatherPeriodPair(summary) ==
    << <<"- morning: ">>
          \o formatWeatherLabel(summary.temperature.morning,
                                summary.weatherCode.morning),
       <<"- afternoon: ">>
          \o formatWeatherLabel(summary.temperature.afternoon,
                                summary.weatherCode.afternoon) >>

\* A slip: the bands closed below instead of above.
getPmGradeExclusive(kind, value) ==
    IF value = Null THEN Null
    ELSE IF kind = "pm10"
         THEN IF ~AtLeast(value, 30) THEN Label("good")
              ELSE IF ~AtLeast(value, 80) THEN Label("moderate")
              ELSE IF ~AtLeast(value, 150) THEN Label("poor")
              ELSE Label("very-poor")
         ELSE IF ~AtLeast(value, 15) THEN Label("good")
              ELSE IF ~AtLeast(value, 35) THEN Label("moderate")
              ELSE IF ~AtLeast(value, 75) THEN Label("poor")
              ELSE Label("very-poor")

getPmGrade(kind, value) ==
    IF value = Null THEN Null
    ELSE IF kind = "pm10"
         THEN IF AtMost(value, 30) THEN Label("good")
              ELSE IF AtMost(value, 80) THEN Label("moderate")
              ELSE IF AtMost(value, 150) THEN Label("poor")
              ELSE Label("very-poor")
         ELSE IF AtMost(value, 15) THEN Label("good")
              ELSE IF AtMost(value, 35) THEN Label("moderate")
              ELSE IF AtMost(value, 75) THEN Label("poor")
              ELSE Label("very-poor")

formatPmValueWithGrade(kind, value) ==
    IF value = Null THEN <<NoData>>
    ELSE <<getPmGrade(kind, value).word, "(">>
            \o formatRoundedNumber(value)
            \o <<")", "ug/m3">>

\* The two lines of a day's pollutant.
formatPmPeriodPair(kind, period, includeUnit) ==
    << <<"- morning: ">> \o formatPmValueWithGrade(kind, period.morning),
       <<"- afternoon: ">> \o formatPmValueWithGrade(kind, period.afternoon)
          \o (IF includeUnit THEN <<" ug/m3">> ELSE <<>>) >>

(***************************************************************************)
(* The values the formatters are run on                                    *)
(***************************************************************************)
\* Numbers of two decimals up to MaxHundredths / 100 on both sides of zero.
MaxHundredths == 250

\* The concentrations: whole ones up to MaxPm, and those of two decimals
\* within Spread / 100 of a limit of either ladder.
MaxPm == 160
Spread == 10
PmLimits == {15, 30, 35, 75, 80, 150}

\* Temperatures by halves up to MaxTemp on both sides of zero, codes up to
\* MaxCode and one below zero.
MaxTemp == 33
MaxCode == 100

RoundedValues ==
    {Num(h, 100) : h \in (0 - MaxHundredths)..MaxHundredths}
        \cup {Num(3504, 100), Num(4206, 100), Num(4044, 100)}

PmValues ==
    {Num(v, 1) : v \in 0..MaxPm}
        \cup {Num(100 * k + o, 100) : k \in PmLimits, o \in (0 - Spread)..Spread}

\* The limits of describeTemperature, and temperatures of two decimals that
\* round to a limit from above.
TemperatureLimits == {-5, 5, 12, 19, 26, 31}

Temperatures ==
    {Num(h, 2) : h \in (0 - 2 * MaxTemp)..(2 * MaxTemp)}
        \cup {Num(100 * k + 4, 100) : k \in TemperatureLimits}

WeatherCodes == {Num(c, 1) : c \in (0 - 1)..MaxCode} \cup {Num(1, 2)}

\* One call is chosen: a number to round, a concentration of a pollutant,
\* or the temperature and the weather code of a period.
FormatInit ==
    /\ \/ \E value \in RoundedValues \cup {Null, Infinity} :
             formatArgs = [call |-> "number", value |-> value]
       \/ \E kind \in {"pm10", "pm2_5"}, value \in PmValues \cup {Null} :
             formatArgs = [call |-> "pm", kind |-> kind, value |-> value]
       \/ \E temperature \in Temperatures \cup {Null},
             weatherCode \in WeatherCodes \cup {Null} :
             formatArgs = [call |-> "label", temperature |-> temperature,
                           weatherCode |-> weatherCode]
    /\ formatted = NotRun
    /\ DatesIdle
    /\ AggIdle
    /\ ReportIdle
    /\ MainIdle

Returned(fn, result) == [fn |-> fn, result |-> result]

FormatRoundedNumber ==
    /\ formatArgs.call = "number"
    /\ formatted = NotRun
    /\ formatted' =
          Returned("formatRoundedNumber", formatRoundedNumber(formatArgs.value))
    /\ UNCHANGED <<formatArgs, dateVars, aggVars, reportVars, mainVars>>

FormatTemperature ==
    /\ formatArgs.call = "number"
    /\ formatted = NotRun
    /\ formatted' =
          Returned("formatTemperature", formatTemperature(formatArgs.value))
    /\ UNCHANGED <<formatArgs, dateVars, aggVars, reportVars, mainVars>>

GetPmGrade ==
    /\ formatArgs.call = "pm"
    /\ formatted = NotRun
    /\ formatted' =
          Returned("getPmGrade", getPmGrade(formatArgs.kind, formatArgs.value))
    /\ UNCHANGED <<formatArgs, dateVars, aggVars, reportVars, mainVars>>

FormatPmValueWithGrade ==
    /\ formatArgs.call = "pm"
    /\ formatted = NotRun
    /\ formatted' =
          Returned("formatPmValueWithGrade",
                   formatPmValueWithGrade(formatArgs.kind, formatArgs.value))
    /\ UNCHANGED <<formatArgs, dateVars, aggVars, reportVars, mainVars>>

DescribeTemperature ==
    /\ formatArgs.call = "label"
    /\ formatted = NotRun
    /\ formatted' =
          Returned("describeTemperature",
                   describeTemperature(formatArgs.temperature))
    /\ UNCHANGED <<formatArgs, dateVars, aggVars, reportVars, mainVars>>

DescribeWeatherCode ==
    /\ formatArgs.call = "label"
    /\ formatted = NotRun
    /\ formatted' =
          Returned("describeWeatherCode",
                   describeWeatherCode(formatArgs.weatherCode))
    /\ UNCHANGED <<formatArgs, dateVars, aggVars, reportVars, mainVars>>

FormatWeatherLabel ==
    /\ formatArgs.call = "label"
    /\ formatted = NotRun
    /\ formatted' =
          Returned("formatWeatherLabel",
                   formatWeatherLabel(formatArgs.temperature,
                                      formatArgs.weatherCode))
    /\ UNCHANGED <<formatArgs, dateVars, aggVars, reportVars, mainVars>>

FormatNext ==
    \/ FormatRoundedNumber
    \/ FormatTemperature
    \/ GetPmGrade
    \/ FormatPmValueWithGrade
    \/ DescribeTemperature
    \/ DescribeWeatherCode
    \/ FormatWeatherLabel

FormatSpec == FormatInit /\ [][FormatNext]_vars

(***************************************************************************)
(* What the claims say of the formatters                                   *)
(***************************************************************************)
Called(fn) == formatted # NotRun /\ formatted.fn = fn

\* A number of two decimals, counted in hundredths.
Hundredths(value) == value.n * (100 \div value.d)

\* The tenths nearest to a number of hundredths, a tie going away from zero.
AwayFromZeroTenths(h) ==
    IF h >= 0 THEN (h + 5) \div 10 ELSE 0 - ((5 - h) \div 10)

\* A number of tenths in print: no decimal part when it is whole, one
\* decimal digit otherwise.
OneDecimal(tenths) ==
    IF tenths % 10 = 0 THEN String(tenths \div 10)
    ELSE (IF tenths < 0 THEN <<"-">> ELSE <<>>)
            \o String(Abs(tenths) \div 10) \o <<".">>
            \o String(Abs(tenths) % 10)

\* C7: for every finite value, positive or negative, formatRoundedNumber
\* prints the value rounded to one decimal place, an exact tie rounded away
\* from zero, without a decimal part when the rounded value is whole and
\* with exactly one decimal digit otherwise.
C7_RoundsHalfAwayFromZero ==
    (Called("formatRoundedNumber") /\ isFiniteNumber(formatArgs.value))
        => formatted.result =
              OneDecimal(AwayFromZeroTenths(Hundredths(formatArgs.value)))

\* What formatRoundedNumber keeps of C7: the same, for the values that are
\* not below zero.
RoundsHalfUpFromZero ==
    (Called("formatRoundedNumber") /\ isFiniteNumber(formatArgs.value)
        /\ formatArgs.value.n >= 0)
        => formatted.result =
              OneDecimal(AwayFromZeroTenths(Hundredths(formatArgs.value)))

\* A tie below zero has been formatted.
NegativeTieFormatted ==
    /\ Called("formatRoundedNumber")
    /\ formatArgs.value = Num(-105, 100)
    /\ formatted.result = <<"-", "1">>

Grades == <<"good", "moderate", "poor", "very-poor">>

\* The upper ends of the first three bands.
Limits(kind) == IF kind = "pm10" THEN <<30, 80, 150>> ELSE <<15, 35, 75>>

\* The grade of a concentration counted in units of 1 / scale: one band
\* further for every limit it lies above.
GradeOf(kind, amount, scale) ==
    Grades[1 + Cardinality({i \in 1..3 : amount > Limits(kind)[i] * scale})]

\* The number printed in a cell, in tenths.
DisplayedTenths(cell) ==
    LET digits == SubSeq(cell, 3, Len(cell) - 2)
    IN  IF \E i \in 1..Len(digits) : digits[i] = "."
        THEN 10 * Number(SubSeq(digits, 1, Len(digits) - 2))
                + DigitValue(digits[Len(digits)])
        ELSE 10 * Number(digits)

\* C8: in every formatted pollutant cell the grade is the grade of the
\* number displayed next to it, the limits counted inclusively: no cell
\* shows a value at or below a limit with the grade of the band above.
C8_GradeAgreesWithDisplayedValue ==
    (Called("formatPmValueWithGrade") /\ formatArgs.value # Null)
        => formatted.result[1] =
              GradeOf(formatArgs.kind, DisplayedTenths(formatted.result), 10)

\* A cell of a concentration just above a limit.
JustAboveLimitFormatted ==
    /\ Called("formatPmValueWithGrade")
    /\ formatArgs.kind = "pm10"
    /\ formatArgs.value = Num(3001, 100)
    /\ formatted.result = <<"moderate", "(", "3", "0", ")", "ug/m3">>

Rank(label) == CHOOSE i \in 1..4 : Grades[i] = label.word

NoHigher(v, w) == v.n * w.d <= w.n * v.d

\* C9: getPmGrade is a ladder of four bands with inclusive upper ends: every
\* concentration that is not absent gets the one grade of its band, never a
\* fifth grade, and a larger concentration never gets a lower grade.
C9_FourBandLadder ==
    Called("getPmGrade") =>
        LET kind == formatArgs.kind
            value == formatArgs.value
        IN  IF value = Null THEN formatted.result = Null
            ELSE /\ formatted.result # Null
                 /\ \E i \in 1..4 : formatted.result.word = Grades[i]
                 /\ formatted.result.word = GradeOf(kind, value.n, value.d)
                 /\ \A lower \in PmValues :
                       NoHigher(lower, value)
                          => Rank(getPmGrade(kind, lower))
                                <= Rank(formatted.result)

\* A concentration at the end of a band has been graded.
C9_Witness ==
    /\ Called("getPmGrade")
    /\ formatArgs.kind = "pm2_5"
    /\ formatArgs.value = Num(35, 1)
    /\ formatted.result = Label("moderate")

(***************************************************************************)
(* buildReportMessage                                                      *)
(*                                                                         *)
(* The message is the sequence of its lines (what join("\n") puts between  *)
(* line feeds), a line being a sequence of characters and tokens.          *)
(***************************************************************************)
emptyAirDaySummary ==
    [pm10 |-> [morning |-> Null, afternoon |-> Null],
     pm2_5 |-> [morning |-> Null, afternoon |-> Null]]

emptyWeatherDayPeriodSummary ==
    [temperature |-> [morning |-> Null, afternoon |-> Null],
     weatherCode |-> [morning |-> Null, afternoon |-> Null]]

\* map[key]: undefined when the map has no entry for the key
Get(map, key) == IF key \in DOMAIN map THEN map[key] ELSE Undefined

\* A slip: the looked-up value is used as it is.
CoalesceNothing(value, default) == value

\* value ?? default
Coalesce(value, default) ==
    IF value = Undefined \/ value = Null THEN default ELSE value

\* The thirteen lines of a day.
dayLines(title, weather, weatherPeriod, air) ==
    << title,
       <<"temperature">>,
       <<"- min: ">> \o formatTemperature(weather.min),
       <<"- max: ">> \o formatTemperature(weather.max),
       <<"weather">> >>
        \o formatWeatherPeriodPair(weatherPeriod)
        \o << <<"fine-dust">> >>
        \o formatPmPeriodPair("pm10", air.pm10, FALSE)
        \o << <<"ultrafine-dust">> >>
        \o formatPmPeriodPair("pm2_5", air.pm2_5, FALSE)

\* Reading a property of undefined throws.
buildReportMessage(input) ==
    LET todayWeather ==
            Coalesce(Get(input.weatherByDate, input.todayDate),
                     [min |-> Null, max |-> Null])
        todayWeatherPeriod ==
            Coalesce(Get(input.weatherPeriodsByDate, input.todayDate),
                     emptyWeatherDayPeriodSummary)
        todayAir ==
            Coalesce(Get(input.airByDate, input.todayDate),
                     emptyAirDaySummary)
        saturdayWeather ==
            Coalesce(Get(input.weatherByDate, input.weekend.saturday),
                     [min |-> Null, max |-> Null])
        sundayWeather ==
            Coalesce(Get(input.weatherByDate, input.weekend.sunday),
                     [min |-> Null, max |-> Null])
        saturdayWeatherPeriod ==
            Coalesce(Get(input.weatherPeriodsByDate, input.weekend.saturday),
                     emptyWeatherDayPeriodSummary)
        sundayWeatherPeriod ==
            Coalesce(Get(input.weatherPeriodsByDate, input.weekend.sunday),
                     emptyWeatherDayPeriodSummary)
        saturdayAir ==
            Coalesce(Get(input.airByDate, input.weekend.saturday),
                     emptyAirDaySummary)
        sundayAir ==
            Coalesce(Get(input.airByDate, input.weekend.sunday),
                     emptyAirDaySummary)
    IN  IF Undefined \in {todayWeather, todayWeatherPeriod, todayAir,
                          saturdayWeather, saturdayWeatherPeriod, saturdayAir,
                          sundayWeather, sundayWeatherPeriod, sundayAir}
        THEN Thrown
        ELSE << <<"[Seoul]">> >>
                \o dayLines(<<"today(">> \o input.todayDate \o <<")">>,
                            todayWeather, todayWeatherPeriod, todayAir)
                \o << <<>>, <<"[weekend]">> >>
                \o dayLines(<<"Sat(">> \o input.weekend.saturday \o <<")">>,
                            saturdayWeather, saturdayWeatherPeriod,
                            saturdayAir)
                \o << <<>> >>
                \o dayLines(<<"Sun(">> \o input.weekend.sunday \o <<")">>,
                            sundayWeather, sundayWeatherPeriod, sundayAir)

(***************************************************************************)
(* The inputs the report is built from                                     *)
(***************************************************************************)
Day4 == Ymd(2026, 3, 1)

\* A Thursday, a Saturday and a Sunday: the days a report is asked for.
ReportDays == {Day1, Day3, Day4}

\* The dates a summary map may hold.
MappedDates == {Day1, Day3, Day4}

DailyEntries ==
    { [min |-> Num(-3, 2), max |-> Num(3504, 100)],
      [min |-> Null, max |-> Num(0, 1)] }

WeatherPeriodEntries ==
    { [temperature |-> [morning |-> Num(-1, 1), afternoon |-> Num(9, 1)],
       weatherCode |-> [morning |-> Num(0, 1), afternoon |-> Num(3, 1)]],
      [temperature |-> [morning |-> Null, afternoon |-> Num(0, 1)],
       weatherCode |-> [morning |-> Num(61, 1), afternoon |-> Null]] }

AirEntries ==
    { [pm10 |-> [morning |-> Num(35, 1), afternoon |-> Num(4206, 100)],
       pm2_5 |-> [morning |-> Num(20, 1), afternoon |-> Num(0, 1)]],
      [pm10 |-> [morning |-> Null, afternoon |-> Num(151, 1)],
       pm2_5 |-> [morning |-> Num(15, 1), afternoon |-> Null]] }

\* The day and its weekend as main derives them; each map holds any of the
\* dates, or none.
ReportInit ==
    /\ \E todayDate \in ReportDays,
          daily \in SUBSET MappedDates,
          periods \in SUBSET MappedDates,
          air \in SUBSET MappedDates :
          \E weather \in [daily -> DailyEntries],
             weatherPeriods \in [periods -> WeatherPeriodEntries],
             airSummaries \in [air -> AirEntries] :
             reportInput =
                [todayDate |-> todayDate,
                 weekend |-> getClosestWeekendDates(todayDate),
                 weatherByDate |-> weather,
                 weatherPeriodsByDate |-> weatherPeriods,
                 airByDate |-> airSummaries]
    /\ reportMessage = NotRun
    /\ DatesIdle
    /\ AggIdle
    /\ FormatIdle
    /\ MainIdle

BuildReportMessage ==
    /\ reportMessage = NotRun
    /\ reportMessage' = buildReportMessage(reportInput)
    /\ UNCHANGED <<reportInput, dateVars, aggVars, formatVars, mainVars>>

ReportNext == BuildReportMessage

ReportSpec == ReportInit /\ [][ReportNext]_vars

(***************************************************************************)
(* What the claims say of the report                                       *)
(***************************************************************************)
\* The sections of the message: the line of the title and the date of each.
ReportSections == {"today", "saturday", "sunday"}

TitleLine(section) ==
    CASE section = "today" -> 2
      [] section = "saturday" -> 17
      [] section = "sunday" -> 31

SectionDate(section) ==
    CASE section = "today" -> reportInput.todayDate
      [] section = "saturday" -> reportInput.weekend.saturday
      [] section = "sunday" -> reportInput.weekend.sunday

\* The lines of the eight data fields, counted from the title: min, max,
\* the weather of the morning and of the afternoon, and the two pollutants
\* of the morning and of the afternoon.
TemperatureLines == {2, 3}
WeatherLines == {5, 6}
AirLines == {8, 9, 11, 12}
DataLines == TemperatureLines \cup WeatherLines \cup AirLines

Held(map, date) == date \in DOMAIN map

\* The field of a line is what follows its caption.
ShowsNoData(line) == Len(line) = 2 /\ line[2] = NoData

\* The thirteen lines of a section as the message has them.
SectionLines(section) ==
    SubSeq(reportMessage, TitleLine(section), TitleLine(section) + 12)

\* The lines a date's section has when the summaries of the date are the
\* given ones.
LinesFor(section, weather, weatherPeriod, air) ==
    << SectionLines(section)[1],
       <<"temperature">>,
       <<"- min: ">> \o formatTemperature(weather.min),
       <<"- max: ">> \o formatTemperature(weather.max),
       <<"weather">>,
       <<"- morning: ">>
          \o formatWeatherLabel(weatherPeriod.temperature.morning,
                                weatherPeriod.weatherCode.morning),
       <<"- afternoon: ">>
          \o formatWeatherLabel(weatherPeriod.temperature.afternoon,
                                weatherPeriod.weatherCode.afternoon),
       <<"fine-dust">>,
       <<"- morning: ">> \o formatPmValueWithGrade("pm10", air.pm10.morning),
       <<"- afternoon: ">>
          \o formatPmValueWithGrade("pm10", air.pm10.afternoon),
       <<"ultrafine-dust">>,
       <<"- morning: ">>
          \o formatPmValueWithGrade("pm2_5", air.pm2_5.morning),
       <<"- afternoon: ">>
          \o formatPmValueWithGrade("pm2_5", air.pm2_5.afternoon) >>

\* C10: buildReportMessage does not fail when a date of the report is
\* missing from a summary map.  For each map on its own the date missing
\* from it is given the all-absent summary of that map, so that the fields
\* of that map show no data; a date missing from all three maps has all
\* eight fields of its section show no data; and the section of a date the
\* maps hold shows that date's summaries, whatever is missing elsewhere.
C10_MissingDateFallback ==
    reportMessage # NotRun =>
        /\ reportMessage # Thrown
        /\ Len(reportMessage) = 43
        /\ \A section \in ReportSections :
              LET date == SectionDate(section)
                  lines == SectionLines(section)
                  weather == reportInput.weatherByDate
                  weatherPeriods == reportInput.weatherPeriodsByDate
                  air == reportInput.airByDate
              IN  /\ ~Held(weather, date)
                        => \A i \in TemperatureLines : ShowsNoData(lines[i + 1])
                  /\ ~Held(weatherPeriods, date)
                        => \A i \in WeatherLines : ShowsNoData(lines[i + 1])
                  /\ ~Held(air, date)
                        => \A i \in AirLines : ShowsNoData(lines[i + 1])
                  /\ (~Held(weather, date) /\ ~Held(weatherPeriods, date)
                          /\ ~Held(air, date))
                        => \A i \in DataLines : ShowsNoData(lines[i + 1])
                  /\ lines =
                        LinesFor(section,
                                 IF Held(weather, date) THEN weather[date]
                                 ELSE [min |-> Null, max |-> Null],
                                 IF Held(weatherPeriods, date)
                                 THEN weatherPeriods[date]
                                 ELSE [temperature |-> AllAbsent,
                                       weatherCode |-> AllAbsent],
                                 IF Held(air, date) THEN air[date]
                                 ELSE [pm10 |-> AllAbsent,
                                       pm2_5 |-> AllAbsent])

\* A report has been built with Saturday missing from all three maps and
\* today held by all three: Saturday's fields show no data and today's
\* show values.
C10_Witness ==
    /\ reportMessage # NotRun
    /\ reportMessage # Thrown
    /\ reportInput.todayDate = Day1
    /\ \A map \in {reportInput.weatherByDate, reportInput.weatherPeriodsByDate,
                   reportInput.airByDate} :
          Held(map, Day1) /\ ~Held(map, reportInput.weekend.saturday)
    /\ \A i \in DataLines : ShowsNoData(SectionLines("saturday")[i + 1])
    /\ SectionLines("today")[4] = <<"- max: ", "3", "5", "degrees-C">>
    /\ SectionLines("today")[10]
          = <<"- afternoon: ", "moderate", "(", "4", "2", ".", "1", ")", "ug/m3">>

\* C11: for every temperature and weather code of a period,
\* formatWeatherLabel returns the temperature label, the separator and the
\* weather label when both values are present, the temperature label alone
\* when only the temperature is present, the weather label alone, without
\* separator, when only the weather code is present, and the no-data token
\* only when both are absent; it returns a label in every case.
C11_WeatherLabelParts ==
    Called("formatWeatherLabel") =>
        LET temperature == formatArgs.temperature
            weatherCode == formatArgs.weatherCode
            label == formatted.result
        IN  /\ Len(label) \in {1, 3}
            /\ (temperature # Null /\ weatherCode # Null)
                  => label = <<describeTemperature(temperature).word, "*",
                               describeWeatherCode(weatherCode).word>>
            /\ (temperature # Null /\ weatherCode = Null)
                  => label = <<describeTemperature(temperature).word>>
            /\ (temperature = Null /\ weatherCode # Null)
                  => label = <<describeWeatherCode(weatherCode).word>>
            /\ (temperature = Null /\ weatherCode = Null)
                  => label = <<NoData>>
            /\ (\E i \in 1..Len(label) : label[i] = NoData)
                  => (temperature = Null /\ weatherCode = Null)
            /\ (\E i \in 1..Len(label) : label[i] = "*")
                  => (temperature # Null /\ weatherCode # Null)

\* A weather code without a temperature has been labelled.
C11_Witness ==
    /\ Called("formatWeatherLabel")
    /\ formatArgs.temperature = Null
    /\ formatArgs.weatherCode = Num(3, 1)
    /\ formatted.result = <<"cloudy">>

\* The codes of each weather word, as the specification lists them.
CodesOf(word) ==
    CASE word = "clear" -> {0}
      [] word = "cloudy" -> {1, 2, 3}
      [] word = "fog" -> {45, 48}
      [] word = "rain" -> (51..67) \cup (80..82)
      [] word = "snow" -> (71..77) \cup {85, 86}
      [] word = "thunderstorm" -> {95, 96, 99}

WeatherWords == {"clear", "cloudy", "fog", "rain", "snow", "thunderstorm"}

\* C14: describeWeatherCode gives every whole code that is not absent
\* exactly one label: the word whose list holds the code (0 clear; 1, 2, 3
\* cloudy; 45, 48 fog; 51..67 and 80..82 rain; 71..77 and 85, 86 snow; 95,
\* 96, 99 thunderstorm), and the no-weather-info word for every other code,
\* never null and never the no-data token.
C14_WeatherCodeTable ==
    (Called("describeWeatherCode") /\ formatArgs.weatherCode # Null
        /\ formatArgs.weatherCode.d = 1)
        => LET code == formatArgs.weatherCode.n
               words == {word \in WeatherWords : code \in CodesOf(word)}
           IN  /\ Cardinality(words) <= 1
               /\ formatted.result # Null
               /\ formatted.result.word # NoData
               /\ \A word \in words : formatted.result = Label(word)
               /\ words = {} => formatted.result = Label("no-weather-info")

\* A code outside the table has been described.
C14_Witness ==
    /\ Called("describeWeatherCode")
    /\ formatArgs.weatherCode = Num(84, 1)
    /\ formatted.result = Label("no-weather-info")

TemperatureWords ==
    <<"very-cold", "cold", "chilly", "mild-cool", "mild-warm", "hot",
      "very-hot">>

\* The upper ends of the first six bands.
TemperatureEnds == <<-5, 5, 12, 19, 26, 31>>

TemperatureRank(label) ==
    CHOOSE i \in 1..7 : TemperatureWords[i] = label.word

\* C15: describeTemperature is a ladder of seven bands with inclusive upper
\* ends (-5, 5, 12, 19, 26, 31): every temperature that is not absent gets
\* the one label of the band the unrounded value lies in, and a higher
\* temperature never gets a lower label.
C15_SevenBandLadder ==
    (Called("describeTemperature") /\ formatArgs.temperature # Null)
        => LET value == formatArgs.temperature
               band == 1 + Cardinality({i \in 1..6 :
                           value.n > TemperatureEnds[i] * value.d})
           IN  /\ formatted.result # Null
               /\ \E i \in 1..7 : formatted.result.word = TemperatureWords[i]
               /\ formatted.result.word = TemperatureWords[band]
               /\ \A lower \in Temperatures :
                     NoHigher(lower, value)
                        => TemperatureRank(describeTemperature(lower))
                              <= TemperatureRank(formatted.result)

\* A temperature that rounds to the end of a band from above has been
\* labelled by its unrounded value.
C15_Witness ==
    /\ Called("describeTemperature")
    /\ formatArgs.temperature = Num(504, 100)
    /\ roundToOneDecimal(formatArgs.temperature) = Num(5, 1)
    /\ formatted.result = Label("chilly")

(***************************************************************************)
(* What the claims say of the keys and of the daily entries                *)
(***************************************************************************)
\* The date components of the entries of a section's time array.
DateComponents(section) ==
    {SubSeq(section.time.items[i], 1, 10) :
        i \in {j \in 1..Len(section.time.items) :
                  /\ Len(section.time.items[j]) >= 10
                  /\ MatchesDateOnly(SubSeq(section.time.items[j], 1, 10))}}

KeysAreSourceDates(result, section) ==
    \A key \in DOMAIN result :
        IsCalendarDate(key) /\ key \in DateComponents(section)

\* C13: every key of a map returned by mapWeatherDailyByDate,
\* aggregateWeatherPeriodsByDate or aggregateAirQualityByDate is a valid
\* YYYY-MM-DD string, the date component of an entry of the source's time
\* array; a time that does not match the pattern is skipped and adds no
\* key, and no key is made for a date the source does not hold.
C13_KeysAreValidSourceDates ==
    /\ Computed(weatherByDate)
          => KeysAreSourceDates(weatherByDate, weatherResponse.daily)
    /\ Computed(weatherPeriodsByDate)
          => /\ KeysAreSourceDates(weatherPeriodsByDate,
                                   weatherResponse.hourly)
             /\ DOMAIN weatherPeriodsByDate
                   = SourceDates(weatherResponse.hourly)
    /\ Computed(airByDate)
          => /\ KeysAreSourceDates(airByDate, airResponse.hourly)
             /\ DOMAIN airByDate = SourceDates(airResponse.hourly)

\* What the two hourly aggregators keep of C13: their keys are the dates of
\* the times that match the pattern, and no others.
HourlyKeysAreSourceDates ==
    /\ Computed(weatherPeriodsByDate)
          => /\ KeysAreSourceDates(weatherPeriodsByDate,
                                   weatherResponse.hourly)
             /\ DOMAIN weatherPeriodsByDate
                   = SourceDates(weatherResponse.hourly)
    /\ Computed(airByDate)
          => /\ KeysAreSourceDates(airByDate, airResponse.hourly)
             /\ DOMAIN airByDate = SourceDates(airResponse.hourly)

\* The daily map has a key that is a time of day, not a date.
DailyKeyWithTimeOfDay ==
    /\ Computed(weatherByDate)
    /\ Iso(Day1, 0) \in DOMAIN weatherByDate

\* A source entry as the claim passes it on: itself when it is a usable
\* number, absent otherwise.
PassedOn(value) == IF value.t = "num" THEN value ELSE Null

\* C16: for every accepted daily series and every index i, the entry stored
\* for the date time[i] has the min and the max of index i, each on its
\* own, when they are numbers, and absent when they are null or no
\* numbers; nothing is averaged or reordered, and every min or max that is
\* not absent is a finite number.
C16_DailyPassthrough ==
    Computed(weatherByDate) =>
        LET daily == weatherResponse.daily
        IN  /\ \A i \in 1..Len(daily.time.items) :
                  LET entry == weatherByDate[daily.time.items[i]]
                  IN  /\ entry.min = PassedOn(daily.temperature_2m_min.items[i])
                      /\ entry.max = PassedOn(daily.temperature_2m_max.items[i])
            /\ \A key \in DOMAIN weatherByDate :
                  \A value \in {weatherByDate[key].min, weatherByDate[key].max} :
                      value # Null => isFiniteNumber(value)

\* What mapWeatherDailyByDate keeps of C16: the entry of a date is made of
\* the last index holding the date, and a value is passed on when its type
\* is number, finite or not.
DailyPassthroughOfTypeNumber ==
    Computed(weatherByDate) =>
        LET daily == weatherResponse.daily
            n == Len(daily.time.items)
            typed(value) ==
                IF value.t \in {"num", "infinity"} THEN value ELSE Null
        IN  \A i \in 1..n :
                (\A j \in (i + 1)..n : daily.time.items[j] # daily.time.items[i])
                    => LET entry == weatherByDate[daily.time.items[i]]
                       IN  /\ entry.min = typed(daily.temperature_2m_min.items[i])
                           /\ entry.max = typed(daily.temperature_2m_max.items[i])

\* A maximum that is a number but not finite has been passed on.
DailyInfinityPassedOn ==
    /\ Computed(weatherByDate)
    /\ Day2 \in DOMAIN weatherByDate
    /\ weatherByDate[Day2].max = Infinity

(***************************************************************************)
(* main                                                                    *)
(*                                                                         *)
(* A step is what main runs between two awaits.  The outcomes of loading   *)
(* the configuration, of the two requests and of the Telegram sends are    *)
(* the environment's choice; the core runs the functions above on the      *)
(* payloads the requests gave.                                             *)
(***************************************************************************)
Exit(code) == [t |-> "returned", code |-> code]

Pending == [t |-> "pending"]
Rejected == [t |-> "rejected"]
Fulfilled(body) == [t |-> "fulfilled", body |-> body]

Send(message, delivered) == [message |-> message, delivered |-> delivered]

\* Payloads of the Weather API: samples of zero among others on a Thursday
\* and on a Saturday, and a payload without its daily section.
MainDaily ==
    Section(<< <<Day1, Num(0, 1), Num(9, 1)>>,
               <<Day3, Num(-1, 1), Num(0, 1)>> >>, DailyNames)

WeatherPayloads ==
    { [daily |-> MainDaily,
       hourly |-> Section(<< <<Iso(Day1, 6), Num(0, 1), Num(0, 1)>>,
                             <<Iso(Day1, 9), Num(4, 1), Num(0, 1)>>,
                             <<Iso(Day1, 12), Num(0, 1), Num(3, 1)>> >>,
                          HourlyNames)],
      [daily |-> MainDaily,
       hourly |-> Section(<< <<Iso(Day3, 7), Num(-2, 1), Num(61, 1)>>,
                             <<Iso(Day3, 8), Num(2, 1), Num(0, 1)>>,
                             <<Iso(Day3, 13), Null, Num(0, 1)>> >>,
                          HourlyNames)],
      [daily |-> Undefined, hourly |-> OneHourly] }

\* Payloads of the Air API, the last with a pm10 array shorter than time.
AirPayloads ==
    { [hourly |-> Section(<< <<Iso(Day1, 6), Num(0, 1), Num(0, 1)>>,
                             <<Iso(Day1, 9), Num(30, 1), Null>>,
                             <<Iso(Day1, 13), Num(0, 1), Num(16, 1)>> >>,
                          AirNames)],
      [hourly |-> Section(<< <<Iso(Day3, 10), Null, Num(0, 1)>>,
                             <<Iso(Day3, 12), Num(0, 1), Num(0, 1)>>,
                             <<Iso(Day3, 17), Num(301, 10), Num(0, 1)>> >>,
                          AirNames)],
      [hourly |-> Damaged(Section(<< <<Iso(Day1, 9), Num(30, 1), Num(15, 1)>> >>,
                                  AirNames), "pm10", "shorter")] }

MainInit ==
    /\ pc = "config"
    /\ config = NotRun
    /\ weatherFetch = NotRun
    /\ airFetch = NotRun
    /\ sent = <<>>
    /\ exitCode = NotRun
    /\ DatesIdle
    /\ AggIdle
    /\ FormatIdle
    /\ ReportIdle

\* Lines 718-728: the three summaries and the report, each made when
\* nothing before it threw.
core(todayDate, weekendDates, weatherBody, airBody) ==
    LET byDate == mapWeatherDailyByDate(weatherBody)
        periods == IF byDate = Thrown THEN NotRun
                   ELSE aggregateWeatherPeriodsByDate(weatherBody)
        air == IF byDate = Thrown \/ periods = Thrown THEN NotRun
               ELSE aggregateAirQualityByDate(airBody)
        built == byDate # Thrown /\ periods # Thrown /\ air # Thrown
        input == IF ~built THEN NotRun
                 ELSE [todayDate |-> todayDate,
                       weekend |-> weekendDates,
                       weatherByDate |-> byDate,
                       weatherPeriodsByDate |-> periods,
                       airByDate |-> air]
    IN  [weatherByDate |-> byDate,
         weatherPeriodsByDate |-> periods,
         airByDate |-> air,
         reportInput |-> input,
         reportMessage |-> IF ~built THEN NotRun
                           ELSE buildReportMessage(input)]

\* A slip: a failed send of the failure message is not caught.
afterFailureSendUncaught(delivered) ==
    IF delivered THEN Exit(1) ELSE Thrown

\* Lines 736-743: a failed send of the failure message is caught and
\* logged, and 1 is returned either way.
afterFailureSend(delivered) == Exit(1)

\* Lines 697-707: the configuration cannot be loaded.
ConfigInvalid ==
    /\ pc = "config"
    /\ config' = "invalid"
    /\ exitCode' = Exit(1)
    /\ pc' = "done"
    /\ UNCHANGED <<weatherFetch, airFetch, sent, dateVars, aggVars,
                   formatVars, reportVars>>

\* Lines 697-716: the configuration is loaded, the day and its weekend are
\* found and both requests are started.
ConfigLoaded ==
    /\ pc = "config"
    /\ config' = "ok"
    /\ \E todayDate \in ReportDays :
          LET weekendDates == getClosestWeekendDates(todayDate)
          IN  /\ todayDateYmd' = todayDate
              /\ weekend' = weekendDates
              /\ IF weekendDates = Thrown
                 THEN /\ pc' = "catch"
                      /\ UNCHANGED <<weatherFetch, airFetch>>
                 ELSE /\ pc' = "fetching"
                      /\ weatherFetch' = Pending
                      /\ airFetch' = Pending
    /\ UNCHANGED <<sent, exitCode, aggVars, formatVars, reportVars>>

\* fetchJson (lines 620-647) of the Weather API returns a payload.
WeatherFetchFulfilled ==
    /\ weatherFetch = Pending
    /\ \E body \in WeatherPayloads : weatherFetch' = Fulfilled(body)
    /\ UNCHANGED <<pc, config, airFetch, sent, exitCode, dateVars, aggVars,
                   formatVars, reportVars>>

\* fetchJson of the Weather API throws a SourceApiError.
WeatherFetchRejected ==
    /\ weatherFetch = Pending
    /\ weatherFetch' = Rejected
    /\ UNCHANGED <<pc, config, airFetch, sent, exitCode, dateVars, aggVars,
                   formatVars, reportVars>>

AirFetchFulfilled ==
    /\ airFetch = Pending
    /\ \E body \in AirPayloads : airFetch' = Fulfilled(body)
    /\ UNCHANGED <<pc, config, weatherFetch, sent, exitCode, dateVars,
                   aggVars, formatVars, reportVars>>

AirFetchRejected ==
    /\ airFetch = Pending
    /\ airFetch' = Rejected
    /\ UNCHANGED <<pc, config, weatherFetch, sent, exitCode, dateVars,
                   aggVars, formatVars, reportVars>>

\* Promise.all rejects as soon as one request does: main goes to its catch
\* while the other request may still be under way.
FetchFailed ==
    /\ pc = "fetching"
    /\ weatherFetch = Rejected \/ airFetch = Rejected
    /\ pc' = "catch"
    /\ UNCHANGED <<config, weatherFetch, airFetch, sent, exitCode, dateVars,
                   aggVars, formatVars, reportVars>>

\* Lines 714-731: both payloads are there; the core runs, and the report is
\* handed to Telegram unless the core threw.
Core ==
    /\ pc = "fetching"
    /\ weatherFetch.t = "fulfilled"
    /\ airFetch.t = "fulfilled"
    /\ LET made == core(todayDateYmd, weekend, weatherFetch.body,
                        airFetch.body)
       IN  /\ weatherResponse' = weatherFetch.body
           /\ airResponse' = airFetch.body
           /\ weatherByDate' = made.weatherByDate
           /\ weatherPeriodsByDate' = made.weatherPeriodsByDate
           /\ airByDate' = made.airByDate
           /\ reportInput' = made.reportInput
           /\ reportMessage' = made.reportMessage
           /\ pc' = IF made.reportInput = NotRun \/ made.reportMessage = Thrown
                    THEN "catch" ELSE "sendReport"
    /\ UNCHANGED <<config, weatherFetch, airFetch, sent, exitCode, dateVars,
                   formatVars>>

\* Lines 731-732: Telegram takes the report.
ReportSendDelivered ==
    /\ pc = "sendReport"
    /\ sent' = Append(sent, Send("report", TRUE))
    /\ exitCode' = Exit(0)
    /\ pc' = "done"
    /\ UNCHANGED <<config, weatherFetch, airFetch, dateVars, aggVars,
                   formatVars, reportVars>>

\* sendTelegramMessage throws on the report.
ReportSendFailed ==
    /\ pc = "sendReport"
    /\ sent' = Append(sent, Send("report", FALSE))
    /\ pc' = "catch"
    /\ UNCHANGED <<config, weatherFetch, airFetch, exitCode, dateVars,
                   aggVars, formatVars, reportVars>>

\* Lines 733-743: the failure message is sent, delivered or not.
FailureSend ==
    /\ pc = "catch"
    /\ \E delivered \in BOOLEAN :
          /\ sent' = Append(sent, Send("failure", delivered))
          /\ exitCode' = afterFailureSend(delivered)
    /\ pc' = "done"
    /\ UNCHANGED <<config, weatherFetch, airFetch, dateVars, aggVars,
                   formatVars, reportVars>>

MainNext ==
    \/ ConfigInvalid
    \/ ConfigLoaded
    \/ WeatherFetchFulfilled
    \/ WeatherFetchRejected
    \/ AirFetchFulfilled
    \/ AirFetchRejected
    \/ FetchFailed
    \/ Core
    \/ ReportSendDelivered
    \/ ReportSendFailed
    \/ FailureSend

MainSpec == MainInit /\ [][MainNext]_vars

(***************************************************************************)
(* What the claims say of main                                             *)
(***************************************************************************)
Sends(message) == {i \in 1..Len(sent) : sent[i].message = message}

ReportBuilt == reportMessage # NotRun /\ reportMessage # Thrown

\* C17: in every run of main, whatever loading the configuration, the two
\* requests, the core and the Telegram sends come to, main returns 0
\* exactly when the configuration was loaded, both requests gave a payload,
\* the core built a report and the report was delivered, and returns 1
\* otherwise, never throwing.  With a loaded configuration and a later
\* failure exactly one failure message is sent, and whether it is delivered
\* does not change the result; without configuration nothing is requested
\* or sent; no failure message follows a delivered report.
C17_MainExitCode ==
    /\ exitCode # Thrown
    /\ (exitCode # NotRun) <=> (pc = "done")
    /\ pc = "done" =>
          /\ exitCode \in {Exit(0), Exit(1)}
          /\ (exitCode = Exit(0))
                <=> /\ config = "ok"
                    /\ weatherFetch.t = "fulfilled"
                    /\ airFetch.t = "fulfilled"
                    /\ ReportBuilt
                    /\ \E i \in Sends("report") : sent[i].delivered
          /\ (config = "ok" /\ exitCode = Exit(1))
                => Cardinality(Sends("failure")) = 1
          /\ config = "invalid"
                => /\ weatherFetch = NotRun
                   /\ airFetch = NotRun
                   /\ sent = <<>>
    /\ Cardinality(Sends("failure")) <= 1
    /\ Cardinality(Sends("report")) <= 1
    /\ \A i \in Sends("failure") :
          /\ pc = "done" /\ exitCode = Exit(1)
          /\ \A j \in 1..(i - 1) : ~sent[j].delivered

\* A run in which the report and then the failure message were not
\* delivered has returned 1.
C17_Witness ==
    /\ pc = "done"
    /\ config = "ok"
    /\ ReportBuilt
    /\ sent = <<Send("report", FALSE), Send("failure", FALSE)>>
    /\ exitCode = Exit(1)

(***************************************************************************)
(* What the claims say of a measured zero                                  *)
(***************************************************************************)
Zero == Num(0, 1)

\* The samples of zero of a date and period are counted: the value is the
\* mean over all qualifying samples, and zero when they are all zero.
ZeroKept(result, section, name, field) ==
    \A date \in SourceDates(section), period \in Periods :
        LET idx == Qualifying(section, name, date, period)
            zeros == {i \in idx : section[name].items[i] = Zero}
        IN  zeros # {} =>
              /\ date \in DOMAIN result
              /\ IsMeanOf(result[date][field][period],
                          section[name].items, idx)
              /\ (zeros = idx => result[date][field][period] = Zero)

\* Codes of zero are codes: where every code of a date and period is zero,
\* zero is its representative code.
ZeroCodeKept(result, section) ==
    \A date \in SourceDates(section), period \in Periods :
        LET idx == Qualifying(section, "weather_code", date, period)
        IN  (idx # {} /\ \A i \in idx : section.weather_code.items[i] = Zero)
                => /\ date \in DOMAIN result
                   /\ result[date].weatherCode[period] = Zero

\* The value of a field of a date: absent when the map does not hold the
\* date.
DailyValue(date, field) ==
    IF Held(weatherByDate, date) THEN weatherByDate[date][field] ELSE Null

PeriodValue(map, date, field, period) ==
    IF Held(map, date) THEN map[date][field][period] ELSE Null

\* C12: a measured zero is never taken for an absent value.  A sample of
\* zero stays in its bucket and counts in the divisor, and an average of
\* zero stays zero; in the report a min or max of zero prints as 0 degrees,
\* a period temperature of zero gets a temperature label, a weather code of
\* zero the clear-sky label, a concentration of zero a graded cell showing
\* 0; and a field shows the no-data token only when its value is absent.
C12_ZeroIsNotAbsent ==
    /\ Computed(airByDate) =>
          /\ ZeroKept(airByDate, airResponse.hourly, "pm10", "pm10")
          /\ ZeroKept(airByDate, airResponse.hourly, "pm2_5", "pm2_5")
    /\ Computed(weatherPeriodsByDate) =>
          /\ ZeroKept(weatherPeriodsByDate, weatherResponse.hourly,
                      "temperature_2m", "temperature")
          /\ ZeroCodeKept(weatherPeriodsByDate, weatherResponse.hourly)
    /\ ReportBuilt =>
          \A section \in ReportSections :
              LET date == SectionDate(section)
                  lines == SectionLines(section)
                  Caption(period) ==
                      IF period = "morning" THEN "- morning: "
                      ELSE "- afternoon: "
                  Row(first, period) ==
                      IF period = "morning" THEN first ELSE first + 1
              IN  /\ \A field \in {"min", "max"} :
                        LET value == DailyValue(date, field)
                            line == lines[IF field = "min" THEN 3 ELSE 4]
                        IN  /\ ShowsNoData(line) <=> (value = Null)
                            /\ value = Zero
                                  => line[2] = "0" /\ line[3] = "degrees-C"
                                        /\ Len(line) = 3
                  /\ \A period \in Periods :
                        LET temperature ==
                                PeriodValue(weatherPeriodsByDate, date,
                                            "temperature", period)
                            code == PeriodValue(weatherPeriodsByDate, date,
                                                "weatherCode", period)
                            line == lines[Row(6, period)]
                        IN  /\ ShowsNoData(line)
                                  <=> (temperature = Null /\ code = Null)
                            /\ temperature = Zero => line[2] = "cold"
                            /\ code = Zero => line[Len(line)] = "clear"
                  /\ \A kind \in {"pm10", "pm2_5"}, period \in Periods :
                        LET value == PeriodValue(airByDate, date, kind, period)
                            line ==
                                lines[Row(IF kind = "pm10" THEN 9 ELSE 12,
                                          period)]
                        IN  /\ ShowsNoData(line) <=> (value = Null)
                            /\ value = Zero
                                  => line = <<Caption(period), "good", "(",
                                              "0", ")", "ug/m3">>

\* A report of a day whose minimum, afternoon temperature, morning weather
\* code and morning pm2.5 are zero shows each of them as a value.
C12_Witness ==
    /\ ReportBuilt
    /\ todayDateYmd = Day1
    /\ DailyValue(Day1, "min") = Zero
    /\ PeriodValue(weatherPeriodsByDate, Day1, "temperature", "afternoon")
          = Zero
    /\ PeriodValue(weatherPeriodsByDate, Day1, "weatherCode", "morning")
          = Zero
    /\ PeriodValue(airByDate, Day1, "pm2_5", "morning") = Zero
    /\ PeriodValue(airByDate, Day1, "pm10", "morning") = Num(15, 1)
    /\ SectionLines("today")[3] = <<"- min: ", "0", "degrees-C">>
    /\ SectionLines("today")[6] = <<"- morning: ", "cold", "*", "clear">>
    /\ SectionLines("today")[12]
          = <<"- morning: ", "good", "(", "0", ")", "ug/m3">>

====
